---- MODULE Spec2Model ----
(***************************************************************************)
(* Model of tanchan.doc_parse: the extraction of per-parameter             *)
(* descriptions from the docstring of a command callback and from the      *)
(* docstring of the typed dict its **kwargs parameter unpacks              *)
(* (_parse_descriptions and the three section parsers it dispatches to).   *)
(*                                                                         *)
(* A Python str is a sequence of one-character strings, so that the        *)
(* regular expressions, strip(), splitlines() and the docstring cleaning   *)
(* of inspect.getdoc are computed character by character.  A dict is a     *)
(* function from keys to values.                                           *)
(***************************************************************************)
EXTENDS Integers, Sequences, FiniteSets, TLC

\* ------------------------------------------------------------------------
\* Characters and the str methods the module uses
\* ------------------------------------------------------------------------

UpperChars ==
    <<"A","B","C","D","E","F","G","H","I","J","K","L","M",
      "N","O","P","Q","R","S","T","U","V","W","X","Y","Z">>

LowerChars ==
    <<"a","b","c","d","e","f","g","h","i","j","k","l","m",
      "n","o","p","q","r","s","t","u","v","w","x","y","z">>

DigitChars ==
    {"0","1","2","3","4","5","6","7","8","9"}

\* the characters matched by \w
WordChars ==
    {UpperChars[i] : i \in 1..26} \cup {LowerChars[i] : i \in 1..26} \cup DigitChars \cup {"_"}

\* the characters removed by str.strip() and counted blank by _line_empty
Whitespace ==
    {" ", "\t", "\n", "\r", "\f"}

LowerChar(c) ==
    IF \E i \in 1..26 : UpperChars[i] = c
    THEN LowerChars[CHOOSE i \in 1..26 : UpperChars[i] = c]
    ELSE c

\* str.lower()
lower(s) ==
    [i \in 1..Len(s) |-> LowerChar(s[i])]

\* the length of the longest run of characters of chars in s that starts at
\* position p
Run(s, p, chars) ==
    LET stops == {q \in p..Len(s) : s[q] \notin chars}
    IN  IF p < 1 \/ p > Len(s) THEN 0
        ELSE IF stops = {} THEN Len(s) - p + 1
        ELSE (CHOOSE q \in stops : \A r \in stops : q <= r) - p

\* str.lstrip()
lstrip(s) ==
    SubSeq(s, Run(s, 1, Whitespace) + 1, Len(s))

\* str.rstrip()
rstrip(s) ==
    LET kept == {i \in 1..Len(s) : s[i] \notin Whitespace}
    IN  IF kept = {} THEN <<>>
        ELSE SubSeq(s, 1, CHOOSE i \in kept : \A j \in kept : j <= i)

\* str.strip()
strip(s) ==
    lstrip(rstrip(s))

\* str.startswith(prefix)
startswith(s, prefix) ==
    /\ Len(prefix) <= Len(s)
    /\ SubSeq(s, 1, Len(prefix)) = prefix

\* str.endswith(suffix)
endswith(s, suffix) ==
    /\ Len(suffix) <= Len(s)
    /\ SubSeq(s, Len(s) - Len(suffix) + 1, Len(s)) = suffix

\* str.removeprefix(prefix)
removeprefix(s, prefix) ==
    IF startswith(s, prefix) THEN SubSeq(s, Len(prefix) + 1, Len(s)) ELSE s

\* str.removesuffix(suffix)
removesuffix(s, suffix) ==
    IF endswith(s, suffix) THEN SubSeq(s, 1, Len(s) - Len(suffix)) ELSE s

\* str.replace(old, "") for a one-character old
replace_char(s, old) ==
    SelectSeq(s, LAMBDA c : c # old)

RECURSIVE split(_, _)
\* str.split(sep) for a one-character separator
split(s, sep) ==
    IF \E i \in 1..Len(s) : s[i] = sep
    THEN LET i == CHOOSE j \in 1..Len(s) : s[j] = sep /\ \A k \in 1..(j - 1) : s[k] # sep
         IN  <<SubSeq(s, 1, i - 1)>> \o split(SubSeq(s, i + 1, Len(s)), sep)
    ELSE <<s>>

\* the parts without an empty last part
without_empty_end(parts) ==
    IF parts[Len(parts)] = <<>> THEN SubSeq(parts, 1, Len(parts) - 1) ELSE parts

\* str.splitlines(): unlike split("\n"), no empty last element
splitlines(s) ==
    without_empty_end(split(s, "\n"))

RECURSIVE join(_, _)
\* sep.join(parts)
join(sep, parts) ==
    IF parts = <<>> THEN <<>>
    ELSE IF Len(parts) = 1 THEN parts[1]
    ELSE parts[1] \o sep \o join(sep, Tail(parts))

\* lines[a:b] for 0-based a, b (negative indices count from the end)
PySlice(s, a, b) ==
    LET n  == Len(s)
        lo == IF a < 0 THEN (IF a + n < 0 THEN 0 ELSE a + n) ELSE a
        hi == IF b < 0 THEN (IF b + n < 0 THEN 0 ELSE b + n) ELSE (IF b > n THEN n ELSE b)
    IN  SubSeq(s, lo + 1, hi)

\* the position lines[i] reads for a 0-based i (negative indices count from
\* the end); 0 when the index is out of range (IndexError)
PyIndex(s, i) ==
    LET n == Len(s)
        p == IF i < 0 THEN i + n + 1 ELSE i + 1
    IN  IF p >= 1 /\ p <= n THEN p ELSE 0

\* ------------------------------------------------------------------------
\* inspect.getdoc: the docstring as the parsers receive it
\* ------------------------------------------------------------------------

\* An absent value (Python None) for a docstring
None ==
    [present |-> FALSE, text |-> <<>>]

Some(text) ==
    [present |-> TRUE, text |-> text]

RECURSIVE expandtabs(_)
\* str.expandtabs(): each tab becomes the spaces that reach the next column
\* that is a multiple of 8, columns counted from the last line break
expandtabs(s) ==
    LET tabs == {i \in 1..Len(s) : s[i] = "\t"}
    IN  IF tabs = {} THEN s
        ELSE LET tab    == CHOOSE i \in tabs : \A j \in tabs : i <= j
                 breaks == {i \in 1..(tab - 1) : s[i] \in {"\n", "\r"}}
                 start  == IF breaks = {} THEN 0
                           ELSE CHOOSE i \in breaks : \A j \in breaks : j <= i
                 column == tab - 1 - start
             IN  SubSeq(s, 1, tab - 1) \o [i \in 1..(8 - (column % 8)) |-> " "]
                     \o expandtabs(SubSeq(s, tab + 1, Len(s)))

RECURSIVE pop_trailing_empty(_)
pop_trailing_empty(lines) ==
    IF lines # <<>> /\ lines[Len(lines)] = <<>>
    THEN pop_trailing_empty(SubSeq(lines, 1, Len(lines) - 1))
    ELSE lines

RECURSIVE pop_leading_empty(_)
pop_leading_empty(lines) ==
    IF lines # <<>> /\ Head(lines) = <<>> THEN pop_leading_empty(Tail(lines)) ELSE lines

\* the smallest indentation of a non-blank line after the first, 0 if none
margin(lines) ==
    LET rest == {i \in 2..Len(lines) : lstrip(lines[i]) # <<>>}
    IN  IF rest = {} THEN 0
        ELSE CHOOSE m \in 0..Len(lines[CHOOSE i \in rest : TRUE]) :
                 /\ \E i \in rest : Run(lines[i], 1, Whitespace) = m
                 /\ \A i \in rest : Run(lines[i], 1, Whitespace) >= m

\* the lines without the margin, the first without its leading whitespace
without_margin(lines, m) ==
    [i \in 1..Len(lines) |->
        IF i = 1 THEN lstrip(lines[i]) ELSE SubSeq(lines[i], m + 1, Len(lines[i]))]

\* the lines of inspect.cleandoc: the first line loses its leading
\* whitespace, the other lines lose the smallest indentation of a
\* non-blank line among them, and empty lines at both ends are dropped
clean_lines(lines) ==
    pop_leading_empty(pop_trailing_empty(without_margin(lines, margin(lines))))

\* inspect.cleandoc(doc)
cleandoc(doc) ==
    join(<<"\n">>, clean_lines(split(expandtabs(doc), "\n")))

\* inspect.getdoc(obj) for an object whose __doc__ is raw
getdoc(raw) ==
    IF raw.present THEN Some(cleandoc(raw.text)) ELSE None

\* the truth value of `doc := inspect.getdoc(obj)`
Truthy(doc) ==
    doc.present /\ doc.text # <<>>

\* ------------------------------------------------------------------------
\* _Descriptions and the three patterns
\* ------------------------------------------------------------------------

_line_empty(line) ==
    strip(line) = <<>>

\* dict item assignment descriptions[name] = value
SetItem(descriptions, name, value) ==
    [k \in (DOMAIN descriptions) \cup {name} |-> IF k = name THEN value ELSE descriptions[k]]

\* a variant of dict.update that keeps the value of a key already present
update_keep(descriptions, other) ==
    [k \in (DOMAIN descriptions) \cup (DOMAIN other) |->
        IF k \in DOMAIN descriptions THEN descriptions[k] ELSE other[k]]

\* dict.update(other)
update(descriptions, other) ==
    [k \in (DOMAIN descriptions) \cup (DOMAIN other) |->
        IF k \in DOMAIN other THEN other[k] ELSE descriptions[k]]

\* the empty dict
EmptyDict ==
    <<>>

\* a variant that joins the fragments of a description without a space
_terminate_line_unspaced(descriptions, current_line) ==
    IF current_line # <<>>
    THEN SetItem(descriptions, Head(current_line), join(<<>>, Tail(current_line)))
    ELSE descriptions

\* the dict after _terminate_line (the list current_line is empty afterwards)
_terminate_line(descriptions, current_line) ==
    IF current_line # <<>>
    THEN SetItem(descriptions, Head(current_line), join(<<" ">>, Tail(current_line)))
    ELSE descriptions

NoMatch ==
    [matched |-> FALSE, groups |-> <<>>]

\* the length of the longest run of \w characters of s that starts at p
WordRun(s, p) ==
    Run(s, p, WordChars)

\* a variant of _GOOGLE_PATTERN anchored at the start of the line,
\* ^(\w+).*:(.*)$, matched against lines that are not dedented
_GOOGLE_PATTERN_anchored(line) ==
    LET n      == Len(line)
        colons == {i \in 2..n : line[i] = ":"}
    IN  IF n = 0 \/ line[1] \notin WordChars \/ colons = {} THEN NoMatch
        ELSE LET last == CHOOSE j \in colons : \A k \in colons : k <= j
             IN  [matched |-> TRUE,
                  groups  |-> <<SubSeq(line, 1, WordRun(line, 1)), SubSeq(line, last + 1, n)>>]

\* _GOOGLE_PATTERN.search(line) for (\w+).*:(.*)$ : the match starts at the
\* first word character that has a colon somewhere after it, .* runs to the
\* last colon of the line, and the second group is what follows that colon
_GOOGLE_PATTERN(line) ==
    LET n      == Len(line)
        words  == {i \in 1..n : line[i] \in WordChars}
        colons == {i \in 1..n : line[i] = ":"}
    IN  IF words = {} THEN NoMatch
        ELSE LET first == CHOOSE i \in words : \A j \in words : i <= j
                 after == {j \in colons : j > first}
             IN  IF after = {} THEN NoMatch
                 ELSE LET last == CHOOSE j \in after : \A k \in after : k <= j
                          run  == WordRun(line, first)
                      IN  [matched |-> TRUE,
                           groups  |-> <<SubSeq(line, first, first + run - 1),
                                         SubSeq(line, last + 1, n)>>]

\* a variant of _NUMPY_PATTERN that captures what follows the colon as a
\* second group, ^(\w+)(?: *:(.+))?$
_NUMPY_PATTERN_typed(line) ==
    LET n      == Len(line)
        run    == WordRun(line, 1)
        colon  == run + Run(line, run + 1, {" "}) + 1
    IN  IF run = 0 THEN NoMatch
        ELSE IF run = n THEN [matched |-> TRUE, groups |-> <<SubSeq(line, 1, run), <<>>>>]
        ELSE IF colon < n /\ line[colon] = ":"
             THEN [matched |-> TRUE,
                   groups  |-> <<SubSeq(line, 1, run), SubSeq(line, colon + 1, n)>>]
        ELSE NoMatch

\* _NUMPY_PATTERN.search(line) for ^(\w+)(?: *:.+)?$ : a name at the start
\* of the line, alone or followed by spaces, a colon and at least one
\* character; the pattern has one group only
_NUMPY_PATTERN(line) ==
    LET n      == Len(line)
        run    == WordRun(line, 1)
        spaces == Run(line, run + 1, {" "})
        colon  == run + spaces + 1
    IN  IF run = 0 THEN NoMatch
        ELSE IF run = n \/ (colon < n /\ line[colon] = ":")
             THEN [matched |-> TRUE, groups |-> <<SubSeq(line, 1, run)>>]
        ELSE NoMatch

\* _REST_PATTERN.match(line) for ^:(\w+) (\w+):(.*)$
_REST_PATTERN(line) ==
    LET n        == Len(line)
        category == WordRun(line, 2)
        name     == WordRun(line, category + 3)
        colon    == category + name + 3
    IN  IF /\ n >= 1 /\ line[1] = ":"
           /\ category >= 1
           /\ category + 2 <= n /\ line[category + 2] = " "
           /\ name >= 1
           /\ colon <= n /\ line[colon] = ":"
        THEN [matched |-> TRUE,
              groups  |-> <<SubSeq(line, 2, category + 1),
                            SubSeq(line, category + 3, category + name + 2),
                            SubSeq(line, colon + 1, n)>>]
        ELSE NoMatch

\* regex.search(line) for the pattern a _Descriptions was built with
search(regex, line) ==
    IF regex = "_GOOGLE_PATTERN" THEN _GOOGLE_PATTERN(line) ELSE _NUMPY_PATTERN(line)

\* the list current_line starts with for a match with the given groups
entry(groups) ==
    IF Len(groups) > 1 /\ strip(groups[2]) # <<>>
    THEN <<groups[1], strip(groups[2])>>
    ELSE <<groups[1]>>

\* a variant that keeps what follows the name on a matching line
collect_line_rest(state, line, result) ==
    IF ~result.matched
    THEN [descriptions |-> state.descriptions,
          current_line |-> Append(state.current_line, strip(line))]
    ELSE [descriptions |-> _terminate_line(state.descriptions, state.current_line),
          current_line |-> <<result.groups[1],
                             strip(SubSeq(line, Len(result.groups[1]) + 1, Len(line)))>>]

\* one round of the loop of _Descriptions.collect, for a line and the
\* result of the search in it
collect_line(state, line, result) ==
    IF ~result.matched
    THEN [descriptions |-> state.descriptions,
          current_line |-> Append(state.current_line, strip(line))]
    ELSE [descriptions |-> _terminate_line(state.descriptions, state.current_line),
          current_line |-> entry(result.groups)]

RECURSIVE collect_from(_, _, _)
\* the loop of _Descriptions.collect over the remaining lines, and the
\* _terminate_line that follows it
collect_from(regex, lines, state) ==
    IF lines = <<>> THEN _terminate_line(state.descriptions, state.current_line)
    ELSE collect_from(regex, Tail(lines),
                      collect_line(state, Head(lines), search(regex, Head(lines))))

\* _Descriptions.collect(lines): self.descriptions afterwards
collect(regex, descriptions, lines) ==
    collect_from(regex, lines, [descriptions |-> descriptions, current_line |-> <<>>])

\* ------------------------------------------------------------------------
\* The three parsers
\* ------------------------------------------------------------------------

\* start_index = None in the parsers' loops
NoIndex ==
    -1

\* the result of a parser: the dict it returns, or the exception it raises
Returned(descriptions) ==
    [error |-> "none", descriptions |-> descriptions]

Raised(error) ==
    [error |-> error, descriptions |-> EmptyDict]

ArgsHeader ==
    <<"a","r","g","s",":">>

\* start_index after the test for the "args:" header at the 0-based index
google_start(line, index, start_index) ==
    IF strip(lower(line)) = ArgsHeader THEN index + 1 ELSE start_index

\* a variant of google_end that never ends the open section
google_end_open(lines, index, start_index, descriptions) ==
    [start_index |-> start_index, descriptions |-> descriptions]

\* the test for an empty line that ends the open section
google_end(lines, index, start_index, descriptions) ==
    IF start_index # NoIndex /\ _line_empty(lines[index + 1])
    THEN [start_index  |-> NoIndex,
          descriptions |-> collect("_GOOGLE_PATTERN", descriptions,
                                   PySlice(lines, start_index, index))]
    ELSE [start_index |-> start_index, descriptions |-> descriptions]

\* one round of the loop of _parse_google
google_line(lines, index, state) ==
    google_end(lines, index, google_start(lines[index + 1], index, state.start_index),
               state.descriptions)

\* the collect after the loop when a section is still open
google_rest(lines, state) ==
    IF state.start_index # NoIndex
    THEN collect("_GOOGLE_PATTERN", state.descriptions,
                 PySlice(lines, state.start_index, Len(lines)))
    ELSE state.descriptions

RECURSIVE google_loop(_, _, _)
\* the loop of _parse_google from the 0-based index on
google_loop(lines, index, state) ==
    IF index >= Len(lines) THEN google_rest(lines, state)
    ELSE google_loop(lines, index + 1, google_line(lines, index, state))

_parse_google(lines) ==
    Returned(google_loop(lines, 0, [start_index |-> NoIndex, descriptions |-> EmptyDict]))

ParametersHeader ==
    <<"p","a","r","a","m","e","t","e","r","s">>

OtherParametersHeader ==
    <<"o","t","h","e","r"," ">> \o ParametersHeader

\* _dedent_lines(lines); lines[0] of an empty list raises IndexError, which
\* the caller tests before it calls this
_dedent_lines(lines) ==
    LET indent == removesuffix(lines[1], rstrip(lines[1]))
    IN  [i \in 1..Len(lines) |-> removeprefix(lines[i], indent)]

\* the loop state of _parse_numpy
NumpyState(error, start_index, descriptions) ==
    [error |-> error, start_index |-> start_index, descriptions |-> descriptions]

\* descriptions.collect(_dedent_lines(block)) and start_index = None
numpy_close(state, block) ==
    IF block = <<>> THEN NumpyState("IndexError", state.start_index, state.descriptions)
    ELSE NumpyState("none", NoIndex,
                    collect("_NUMPY_PATTERN", state.descriptions, _dedent_lines(block)))

\* the three branches taken at a dash-only line, prev and back being the
\* positions that lines[index - 1] and lines[index - 2] read
numpy_dashes(lines, index, state, prev, back) ==
    IF prev = 0 THEN NumpyState("IndexError", state.start_index, state.descriptions)
    ELSE IF state.start_index = NoIndex
    THEN IF strip(lower(lines[prev])) \in {ParametersHeader, OtherParametersHeader}
         THEN NumpyState("none", index + 1, state.descriptions)
         ELSE state
    ELSE IF lines[prev] = <<>>
    THEN numpy_close(state, PySlice(lines, state.start_index, index - 1))
    ELSE IF back = 0 THEN NumpyState("IndexError", state.start_index, state.descriptions)
    ELSE IF _line_empty(lines[back])
    THEN numpy_close(state, PySlice(lines, state.start_index, index - 2))
    ELSE state

\* one round of the loop of _parse_numpy; nothing runs after an IndexError
numpy_line(lines, index, state) ==
    IF state.error # "none" THEN state
    ELSE IF ~startswith(lines[index + 1], <<"-">>) \/ replace_char(lines[index + 1], "-") # <<>>
    THEN state
    ELSE numpy_dashes(lines, index, state, PyIndex(lines, index - 1), PyIndex(lines, index - 2))

\* the collect after the loop when a section is still open
numpy_rest(lines, state) ==
    IF state.error # "none" THEN Raised(state.error)
    ELSE IF state.start_index # NoIndex
    THEN Returned(collect("_NUMPY_PATTERN", state.descriptions,
                          PySlice(lines, state.start_index, Len(lines))))
    ELSE Returned(state.descriptions)

RECURSIVE numpy_loop(_, _, _)
\* the loop of _parse_numpy from the 0-based index on
numpy_loop(lines, index, state) ==
    IF index >= Len(lines) THEN numpy_rest(lines, state)
    ELSE numpy_loop(lines, index + 1, numpy_line(lines, index, state))

_parse_numpy(lines) ==
    numpy_loop(lines, 0, NumpyState("none", NoIndex, EmptyDict))

ParamCategory ==
    <<"p","a","r","a","m">>

\* the list current_line starts with after a field of the given category
rest_entry(category, name, description) ==
    IF category # ParamCategory THEN <<>>
    ELSE IF description # <<>> THEN <<name, description>>
    ELSE <<name>>

\* one round of the loop of _parse_rest, for a line and its match
rest_line(state, line, match) ==
    IF ~match.matched
    THEN [descriptions |-> state.descriptions,
          current_line |-> Append(state.current_line, strip(line))]
    ELSE [descriptions |-> _terminate_line(state.descriptions, state.current_line),
          current_line |-> rest_entry(match.groups[1], match.groups[2],
                                      strip(match.groups[3]))]

RECURSIVE rest_loop(_, _)
\* the loop of _parse_rest over the remaining lines, and the
\* _terminate_line that follows it
rest_loop(lines, state) ==
    IF lines = <<>> THEN _terminate_line(state.descriptions, state.current_line)
    ELSE rest_loop(Tail(lines), rest_line(state, Head(lines), _REST_PATTERN(Head(lines))))

_parse_rest(lines) ==
    Returned(rest_loop(lines, [descriptions |-> EmptyDict, current_line |-> <<>>]))

\* ------------------------------------------------------------------------
\* Style tables and detection
\* ------------------------------------------------------------------------

\* doc_style = None
NoStyle ==
    "None"

\* the keys of _PARSERS
DocStyles ==
    {"google", "numpy", "reST"}

\* _PARSERS[style](lines)
_PARSERS(style, lines) ==
    IF style = "google" THEN _parse_google(lines)
    ELSE IF style = "numpy" THEN _parse_numpy(lines)
    ELSE _parse_rest(lines)

\* s has the literal lit at position p
LiteralAt(s, p, lit) ==
    /\ p >= 1
    /\ p + Len(lit) - 1 <= Len(s)
    /\ SubSeq(s, p, p + Len(lit) - 1) = lit

\* re.compile(r"\n[\t ]*args:\n", re.IGNORECASE).search(doc_string)
GoogleStylePattern(doc_string) ==
    \E p \in 1..Len(doc_string) :
        /\ doc_string[p] = "\n"
        /\ LET q == p + 1 + Run(doc_string, p + 1, {"\t", " "})
           IN  LiteralAt(lower(doc_string), q, ArgsHeader \o <<"\n">>)

\* re.compile(r"\n[\t ]*parameters\n[\t ]*-+", re.IGNORECASE).search(doc_string)
NumpyStylePattern(doc_string) ==
    \E p \in 1..Len(doc_string) :
        /\ doc_string[p] = "\n"
        /\ LET q == p + 1 + Run(doc_string, p + 1, {"\t", " "})
               r == q + Len(ParametersHeader) + 1
           IN  /\ LiteralAt(lower(doc_string), q, ParametersHeader \o <<"\n">>)
               /\ LiteralAt(doc_string, r + Run(doc_string, r, {"\t", " "}), <<"-">>)

\* re.compile(r"\n:param \w+:").search(doc_string)
RestStylePattern(doc_string) ==
    \E p \in 1..Len(doc_string) :
        /\ LiteralAt(doc_string, p, <<"\n", ":">> \o ParamCategory \o <<" ">>)
        /\ LET q == p + 8
           IN  /\ WordRun(doc_string, q) >= 1
               /\ LiteralAt(doc_string, q + WordRun(doc_string, q), <<":">>)

\* the list of (pattern, style) pairs, in order
_MATCH_STYLE ==
    <<"google", "numpy", "reST">>

\* pattern.search(doc_string) for the pattern paired with style
StyleMatches(style, doc_string) ==
    IF style = "google" THEN GoogleStylePattern(doc_string)
    ELSE IF style = "numpy" THEN NumpyStylePattern(doc_string)
    ELSE RestStylePattern(doc_string)

\* the style of the first pattern among the matching ones
first_style(hits) ==
    IF hits = {} THEN NoStyle
    ELSE _MATCH_STYLE[CHOOSE i \in hits : \A j \in hits : i <= j]

\* _get_docstyle(doc_string): the style of the first pattern that matches
_get_docstyle(doc_string) ==
    first_style({i \in 1..Len(_MATCH_STYLE) : StyleMatches(_MATCH_STYLE[i], doc_string)})

\* ------------------------------------------------------------------------
\* _parse_descriptions
\* ------------------------------------------------------------------------

UnsupportedStyle ==
    "ValueError: Unsupported docstring style"

UndeterminedStyle ==
    "RuntimeError: Couldn't detect the docstring style"

MissingDocumentation ==
    "ValueError: Callback has no doc string"

\* a variant of the doc_style test with the membership inverted
unsupported_inverted(doc_style) ==
    doc_style # NoStyle /\ doc_style \in {"google", "numpy", "reST"}

\* `doc_style and doc_style not in _PARSERS`
unsupported(doc_style) ==
    doc_style # NoStyle /\ doc_style \notin DocStyles

\* `doc_style or _get_docstyle(doc_string)`
style_of(doc_style, doc_string) ==
    IF doc_style # NoStyle THEN doc_style ELSE _get_docstyle(doc_string)

\* the state of the loop over the parameters: the exception raised, whether
\* the loop was left by break, and kwargs
SignatureState(raised, broken, kwargs) ==
    [error |-> raised, broken |-> broken, kwargs |-> kwargs]

\* kwargs.update(parser(typed_dict_doc.splitlines()))
seed_parsed(state, parsed) ==
    IF parsed.error # "none" THEN SignatureState(parsed.error, state.broken, state.kwargs)
    ELSE SignatureState("none", state.broken, update(state.kwargs, parsed.descriptions))

\* a variant in which a typed dict docstring of no detectable style raises
seed_style_fatal(state, doc_string, style) ==
    IF style = NoStyle THEN SignatureState(UndeterminedStyle, state.broken, state.kwargs)
    ELSE seed_parsed(state, _PARSERS(style, splitlines(doc_string)))

\* the parser is looked up for the style; no parser, no entries
seed_style(state, doc_string, style) ==
    IF style = NoStyle THEN state
    ELSE seed_parsed(state, _PARSERS(style, splitlines(doc_string)))

\* `if typed_dict_doc := inspect.getdoc(typed_dict)`
seed(state, doc, doc_style) ==
    IF ~Truthy(doc) THEN state
    ELSE seed_style(state, doc.text, style_of(doc_style, doc.text))

\* a variant that reads the docstring of any class an annotation names
signature_parameter_any(state, parameter, typed_dict_doc, doc_style) ==
    IF state.error # "none" \/ state.broken THEN state
    ELSE seed(state, getdoc(typed_dict_doc), doc_style)

\* one round of the loop over the parameters of the signature
signature_parameter(state, parameter, typed_dict_doc, doc_style) ==
    IF state.error # "none" \/ state.broken THEN state
    ELSE IF parameter.kind # "VAR_KEYWORD" THEN state
    ELSE IF parameter.origin # "Unpack" THEN SignatureState("none", TRUE, state.kwargs)
    ELSE IF ~parameter.is_typeddict THEN SignatureState("none", TRUE, state.kwargs)
    ELSE seed(state, getdoc(typed_dict_doc), doc_style)

RECURSIVE signature_loop(_, _, _, _)
\* the loop over the parameters of the callback's signature: the docstring
\* of the typed dict that the ** parameter unpacks is parsed into kwargs
signature_loop(parameters, typed_dict_doc, doc_style, state) ==
    IF parameters = <<>> THEN state
    ELSE signature_loop(Tail(parameters), typed_dict_doc, doc_style,
                        signature_parameter(state, Head(parameters), typed_dict_doc, doc_style))

\* kwargs after the loop, or the exception the loop raised
signature_outcome(state) ==
    IF state.error # "none" THEN Raised(state.error) ELSE Returned(state.kwargs)

\* the part of _parse_descriptions that reads the callback's signature
parse_typed_dict(parameters, typed_dict_doc, doc_style) ==
    signature_outcome(signature_loop(parameters, typed_dict_doc, doc_style,
                                     SignatureState("none", FALSE, EmptyDict)))

\* a variant of the detail lines that keeps the summary line
detail_lines_all(doc_string) ==
    splitlines(doc_string)

\* `doc_string.splitlines()[1:]`
detail_lines(doc_string) ==
    Tail(splitlines(doc_string))

\* a variant of the undetermined branch without `if kwargs: return kwargs`
undetermined_always(kwargs) ==
    Raised(UndeterminedStyle)

\* the branch taken when no style is found for the callback's docstring
undetermined(kwargs) ==
    IF kwargs # EmptyDict THEN Returned(kwargs) ELSE Raised(UndeterminedStyle)

\* a variant of the undocumented branch with `else` for `elif not kwargs`
undocumented_always(kwargs) ==
    Raised(MissingDocumentation)

\* the branch taken when the callback has no docstring
undocumented(kwargs) ==
    IF kwargs = EmptyDict THEN Raised(MissingDocumentation) ELSE Returned(kwargs)

\* kwargs.update(_PARSERS[doc_style](lines)) and return kwargs
merge(kwargs, parsed) ==
    IF parsed.error # "none" THEN Raised(parsed.error)
    ELSE Returned(update(kwargs, parsed.descriptions))

\* a variant of the callback's lines without `if not lines: return kwargs`
parse_lines_no_summary_return(lines, style, kwargs) ==
    IF style = NoStyle THEN undetermined(kwargs)
    ELSE merge(kwargs, _PARSERS(style, lines))

\* what is done with the lines after the callback's summary line, style
\* being `doc_style or _get_docstyle(doc_string)`
parse_lines(lines, style, kwargs) ==
    IF lines = <<>> THEN Returned(kwargs)
    ELSE IF style = NoStyle THEN undetermined(kwargs)
    ELSE merge(kwargs, _PARSERS(style, lines))

\* `if doc_string := inspect.getdoc(callback)` and its elif
parse_doc_string(doc, doc_style, kwargs) ==
    IF Truthy(doc)
    THEN parse_lines(detail_lines(doc.text), style_of(doc_style, doc.text), kwargs)
    ELSE undocumented(kwargs)

\* the part of _parse_descriptions that reads the callback's own docstring
parse_callback_doc(callback_doc, doc_style, kwargs) ==
    parse_doc_string(getdoc(callback_doc), doc_style, kwargs)

\* ------------------------------------------------------------------------
\* The callbacks the model calls _parse_descriptions with
\* ------------------------------------------------------------------------

\* a callback docstring in the reST style
RestDoc ==
    <<"S","u","m","m","a","r","y",".","\n">> \o
    <<"\n">> \o
    <<":","p","a","r","a","m"," ","c","a","t",":"," ","T","h","e"," ","u","s","e","r",".","\n">> \o
    <<":","t","y","p","e"," ","c","a","t",":"," ","X","\n">> \o
    <<":","p","a","r","a","m"," ","p","a","n",":"," ","T","h","e"," ","c","h","a","n","n","e","l",".","\n">>

\* a callback docstring in the Numpy style
NumpyDoc ==
    <<"S","u","m","m","a","r","y",".","\n">> \o
    <<"\n">> \o
    <<"P","a","r","a","m","e","t","e","r","s","\n">> \o
    <<"-","-","-","-","-","-","-","-","-","-","\n">> \o
    <<"f","o","o"," ",":"," ","s","e","x","\n">> \o
    <<" "," "," "," ","g","o"," ","h","o","m","e"," ","b","o","s","s","\n">> \o
    <<"b","a","r","\n">> \o
    <<" "," "," "," ","m","e","o","w","e","r","s","\n">>

\* a callback docstring in the Google style
GoogleDoc ==
    <<"S","u","m","m","a","r","y",".","\n">> \o
    <<"\n">> \o
    <<"A","r","g","s",":","\n">> \o
    <<" "," "," "," ","a",":"," ","x","\n">> \o
    <<" "," "," "," ","b",":"," ","y","\n">>

\* the Numpy docstring with a Returns section directly after the last
\* entry of its Parameters section, no blank line in between
NumpySquashedDoc ==
    NumpyDoc \o
    <<"R","e","t","u","r","n","s","\n">> \o
    <<"-","-","-","-","-","-","-","\n">> \o
    <<"s","t","r","\n">> \o
    <<" "," "," "," ","T","h","e"," ","t","h","i","n","g",".","\n">>

\* a Numpy docstring whose Parameters and Other Parameters blocks are
\* separated by a Returns section
NumpySeparatedBlocksDoc ==
    <<"S",".","\n">> \o
    <<"\n">> \o
    <<"P","a","r","a","m","e","t","e","r","s","\n">> \o
    <<"-","-","-","\n">> \o
    <<"a","\n">> \o
    <<" "," ","x","\n">> \o
    <<"\n">> \o
    <<"R","e","t","u","r","n","s","\n">> \o
    <<"-","-","-","\n">> \o
    <<"r","\n">> \o
    <<"\n">> \o
    <<"O","t","h","e","r"," ","P","a","r","a","m","e","t","e","r","s","\n">> \o
    <<"-","-","-","\n">> \o
    <<"b","\n">> \o
    <<" "," ","y","\n">>

\* a Numpy docstring whose Other Parameters block follows its Parameters
\* block after a single blank line
NumpyAdjacentBlocksDoc ==
    <<"S",".","\n">> \o
    <<"\n">> \o
    <<"P","a","r","a","m","e","t","e","r","s","\n">> \o
    <<"-","-","-","\n">> \o
    <<"a","\n">> \o
    <<" "," ","x","\n">> \o
    <<"\n">> \o
    <<"O","t","h","e","r"," ","P","a","r","a","m","e","t","e","r","s","\n">> \o
    <<"-","-","-","\n">> \o
    <<"b","\n">> \o
    <<" "," ","y","\n">>

\* a Numpy docstring whose Parameters section is empty and followed, after
\* a blank line, by a Returns section
NumpyEmptySectionDoc ==
    <<"S",".","\n">> \o
    <<"\n">> \o
    <<"P","a","r","a","m","e","t","e","r","s","\n">> \o
    <<"-","-","-","\n">> \o
    <<"\n">> \o
    <<"R","e","t","u","r","n","s","\n">> \o
    <<"-","-","-","\n">> \o
    <<"x","\n">>

\* a Numpy docstring whose Parameters section is followed by a blank line
\* and plain lines, no header
NumpyBlankEndedDoc ==
    <<"S",".","\n">> \o
    <<"\n">> \o
    <<"P","a","r","a","m","e","t","e","r","s","\n">> \o
    <<"-","-","-","\n">> \o
    <<"a","\n">> \o
    <<" "," ","x","\n">> \o
    <<"\n">> \o
    <<"t","e","x","t","\n">> \o
    <<"m","o","r","e","\n">>

\* a Google docstring with two "Args:" sections, a blank line in between
GoogleTwoSectionsDoc ==
    <<"S",".","\n">> \o
    <<"\n">> \o
    <<"A","r","g","s",":","\n">> \o
    <<" "," ","a",":"," ","x","\n">> \o
    <<" "," ","d",":"," ","w","\n">> \o
    <<"\n">> \o
    <<"A","r","g","s",":","\n">> \o
    <<" "," ","a",":"," ","y","\n">> \o
    <<" "," ","b",":"," ","y","\n">>

\* a Google docstring whose second "Args:" header follows the entry of
\* the first section directly
GoogleAdjacentSectionsDoc ==
    <<"S",".","\n">> \o
    <<"\n">> \o
    <<"A","r","g","s",":","\n">> \o
    <<" "," ","a",":"," ","x","\n">> \o
    <<"A","r","g","s",":","\n">> \o
    <<" "," ","b",":"," ","y","\n">>

\* a Numpy docstring whose entry line has the form `name : rest`
NumpyTypedEntryDoc ==
    <<"S",".","\n">> \o
    <<"\n">> \o
    <<"P","a","r","a","m","e","t","e","r","s","\n">> \o
    <<"-","-","-","\n">> \o
    <<"b"," ",":"," ","i","n","t","\n">> \o
    <<" "," ","y","\n">>

\* a Numpy docstring whose only section is Other Parameters
NumpyOtherOnlyDoc ==
    <<"S",".","\n">> \o
    <<"\n">> \o
    <<"O","t","h","e","r"," ","P","a","r","a","m","e","t","e","r","s","\n">> \o
    <<"-","-","-","\n">> \o
    <<"b","\n">> \o
    <<" "," ","y","\n">>

\* a docstring whose Parameters line is followed by a line that starts
\* with dashes and goes on with other characters
DashPrefixDoc ==
    <<"S",".","\n">> \o
    <<"\n">> \o
    <<"P","a","r","a","m","e","t","e","r","s","\n">> \o
    <<"-","-","-"," ","x","\n">> \o
    <<"b","\n">> \o
    <<" "," ","y","\n">>

\* a Numpy docstring whose section runs to the end of the text, and the
\* same with every line of the section indented by two more blanks
NumpyPlainSectionDoc ==
    <<"S",".","\n">> \o
    <<"\n">> \o
    <<"P","a","r","a","m","e","t","e","r","s","\n">> \o
    <<"-","-","-","\n">> \o
    <<"b","\n">> \o
    <<" "," ","y","\n">> \o
    <<"c","\n">> \o
    <<" "," ","z","\n">>

NumpyIndentedSectionDoc ==
    <<"S",".","\n">> \o
    <<"\n">> \o
    <<"P","a","r","a","m","e","t","e","r","s","\n">> \o
    <<"-","-","-","\n">> \o
    <<" "," ","b","\n">> \o
    <<" "," "," "," ","y","\n">> \o
    <<" "," ","c","\n">> \o
    <<" "," "," "," ","z","\n">>

\* the two docstrings above with a Returns section after a blank line
ReturnsSection ==
    <<"\n">> \o
    <<"R","e","t","u","r","n","s","\n">> \o
    <<"-","-","-","\n">> \o
    <<"r","\n">>

NumpyPlainEndedDoc ==
    NumpyPlainSectionDoc \o ReturnsSection

NumpyIndentedEndedDoc ==
    NumpyIndentedSectionDoc \o ReturnsSection

\* Google docstrings whose entry carries a type after the name: with the
\* colon directly after it, with a blank before the colon, and with a
\* description that has a colon of its own
GoogleTypedDoc ==
    <<"S",".","\n">> \o
    <<"\n">> \o
    <<"A","r","g","s",":","\n">> \o
    <<" "," ","a"," ","(","i","n","t",")",":"," ","x","\n">>

GoogleTypedSpacedDoc ==
    <<"S",".","\n">> \o
    <<"\n">> \o
    <<"A","r","g","s",":","\n">> \o
    <<" "," ","a"," ","(","i","n","t",")"," ",":"," ","x","\n">>

GoogleTypedColonDoc ==
    <<"S",".","\n">> \o
    <<"\n">> \o
    <<"A","r","g","s",":","\n">> \o
    <<" "," ","a"," ","(","i","n","t",")",":"," ","s","e","e",":"," ","t","h","i","s","\n">>

\* ReST docstrings: a type field followed by an indented line between two
\* param fields, and a param entry closed by a returns field
RestTypeContinuedDoc ==
    <<"S",".","\n">> \o
    <<":","p","a","r","a","m"," ","c",":"," ","y","\n">> \o
    <<":","t","y","p","e"," ","c",":"," ","i","n","t","\n">> \o
    <<" "," ","m","o","r","e","\n">> \o
    <<":","p","a","r","a","m"," ","d",":"," ","w","\n">> \o
    <<" "," ","t","a","i","l","\n">>

RestClosedByReturnsDoc ==
    <<"S",".","\n">> \o
    <<":","p","a","r","a","m"," ","c",":"," ","y","\n">> \o
    <<" "," ","m","o","r","e","\n">> \o
    <<":","r","e","t","u","r","n","s"," ","r",":"," ","i","n","t","\n">>

\* a callback docstring of one line
SummaryDoc ==
    <<"S","u","m","m","a","r","y",".">>

\* a one-line docstring whose closing quotes sit on the next, indented line
SummaryBlockDoc ==
    <<"S","u","m","m","a","r","y",".","\n">> \o
    <<" "," "," "," ">>

\* a docstring whose detail lines follow none of the styles, indented as in a function body
ProseDoc ==
    <<"D","e","s","c","r","i","p","t","i","o","n",".","\n">> \o
    <<"\n">> \o
    <<" "," "," "," ","N","o","t"," ","e","m","p","t","y",".","\n">> \o
    <<" "," "," "," ">>

\* an empty docstring
EmptyDoc ==
    <<>>

\* a typed dict docstring in the Numpy style
GroupNumpyDoc ==
    <<"D","e","s","c","r","i","p","t","i","o","n",".","\n">> \o
    <<"\n">> \o
    <<"P","a","r","a","m","e","t","e","r","s","\n">> \o
    <<"-","-","-","-","-","-","-","-","-","-","\n">> \o
    <<"v","a","l","u","e","\n">> \o
    <<" "," "," "," ","V","a","l","u","e"," ","m","e"," ","u","w","u",".","\n">>

\* a typed dict docstring in the Google style
GroupGoogleDoc ==
    <<"G","r","o","u","p",".","\n">> \o
    <<"\n">> \o
    <<"A","r","g","s",":","\n">> \o
    <<" "," "," "," ","a",":"," ","z","\n">>

\* a typed dict docstring that follows none of the styles
GroupProseDoc ==
    <<"T","y","p","e","d"," ","d","i","c","t",".","\n">> \o
    <<"\n">> \o
    <<"N","o","t"," ","e","m","p","t","y",".","\n">>

\* a typed dict docstring whose Parameters header is followed by no dash-only row
GroupNoParamsDoc ==
    <<"M","e","o","w"," ","d","o","c",".","\n">> \o
    <<"\n">> \o
    <<"P","a","r","a","m","e","t","e","r","s","\n">> \o
    <<"-","-","-","-","-","-","-","-","-","-"," "," ","#"," ","n","o","q","a",":"," ","D","4","1","4","\n">>

\* a typed dict docstring whose Parameters section is empty and followed by another section
GroupEmptySectionDoc ==
    <<"G","r","o","u","p",".","\n">> \o
    <<"\n">> \o
    <<"P","a","r","a","m","e","t","e","r","s","\n">> \o
    <<"-","-","-","-","-","-","-","-","-","-","\n">> \o
    <<"\n">> \o
    <<"R","e","t","u","r","n","s","\n">> \o
    <<"-","-","-","-","-","-","-","\n">> \o
    <<"x","\n">>

\* the summary line of the composed docstrings
SummaryLine ==
    <<"S",".">>

\* the lines the detail part of a composed docstring is made of
DetailLines ==
    { <<>>,
      <<"A","r","g","s",":">>,
      <<" "," ","a",":"," ","x">>,
      <<"P","a","r","a","m","e","t","e","r","s">>,
      <<"-","-","-">>,
      <<"b">>,
      <<":","p","a","r","a","m"," ","c",":"," ","y">>,
      <<"t","e","x","t">> }

\* the largest number of detail lines of a composed docstring
MaxDetailLines ==
    2

\* the docstring made of the summary line and the given detail lines
Compose(lines) ==
    IF lines = <<>> THEN SummaryLine
    ELSE SummaryLine \o <<"\n">> \o join(<<"\n">>, lines)

ComposedDocs ==
    {Compose(lines) : lines \in UNION {[1..n -> DetailLines] : n \in 0..MaxDetailLines}}

\* the lines that continue the description of an entry
ContinuationLines ==
    { <<" "," "," "," ","m","o","r","e">>,
      <<" "," ","t"," ","w"," "," ">>,
      <<"\t","z">> }

\* the largest number of continuation lines of an entry
MaxContinuation ==
    2

\* an entry of a parameter section: the header lines of its section, the
\* entry's line, the name and the description fragment on that line, and
\* the line of an entry that may follow it
Entry(style, header, line, name, fragment, following) ==
    [style |-> style, header |-> header, line |-> line, name |-> name,
     fragment |-> fragment, following |-> following]

Entries ==
    { Entry("google", <<ArgsHeader>>, <<" "," ","a",":"," ","x">>, <<"a">>, <<"x">>,
            <<" "," ","d",":"," ","w">>),
      Entry("google", <<ArgsHeader>>, <<" "," ","a",":">>, <<"a">>, <<>>,
            <<" "," ","d",":"," ","w">>),
      Entry("numpy", <<ParametersHeader, <<"-","-","-">> >>, <<"b">>, <<"b">>, <<>>, <<"d">>),
      Entry("reST", <<>>, <<":","p","a","r","a","m"," ","c",":"," ","y">>, <<"c">>, <<"y">>,
            <<":","p","a","r","a","m"," ","d",":"," ","w">>),
      Entry("reST", <<>>, <<":","p","a","r","a","m"," ","c",":">>, <<"c">>, <<>>,
            <<":","p","a","r","a","m"," ","d",":"," ","w">>) }

\* the lists of 1..MaxContinuation continuation lines
Continuations ==
    UNION {[1..n -> ContinuationLines] : n \in 1..MaxContinuation}

\* the docstring with the entry and its continuation lines, at the end of
\* the text or followed by another entry
ContinuedDoc(item, continuation, followed) ==
    join(<<"\n">>, <<SummaryLine, <<>> >> \o item.header \o <<item.line>> \o continuation
                       \o (IF followed THEN <<item.following>> ELSE <<>>))

ContinuedDocs ==
    {ContinuedDoc(item, continuation, followed) :
        item \in Entries, continuation \in Continuations, followed \in BOOLEAN}

\* the lines of an Args section: its header and its entries
ArgsSections ==
    { <<<<"A","r","g","s",":">>, <<" "," ","a",":"," ","x">>, <<" "," ","b",":"," ","y">>>>,
      <<<<"a","r","g","s",":">>, <<" "," ","a",":"," ","x">>, <<" "," "," "," ","m","o","r","e">>, <<" "," ","b",":"," ","y">>>> }

\* the lines of other sections placed before the Args header, with and
\* without a blank line between
OtherSectionsBefore ==
    { <<>>,
      <<<<"R","e","t","u","r","n","s",":">>, <<" "," ","r",":"," ","z">>, <<>>>>,
      <<<<"R","a","i","s","e","s",":">>, <<" "," ","e",":"," ","q">>>> }

\* the blank line that ends the Args section and the lines of the other
\* sections after it
OtherSectionsAfter ==
    { <<>>,
      <<<<>>, <<"R","e","t","u","r","n","s",":">>, <<" "," ","r",":"," ","z">>>>,
      <<<<>>, <<"R","a","i","s","e","s",":">>, <<" "," ","e",":"," ","q">>, <<>>, <<"R","e","t","u","r","n","s",":">>, <<" "," ","r",":"," ","z">>>> }

\* the docstring made of the summary, a blank line and the three parts
SectionedDoc(preceding, section, following) ==
    join(<<"\n">>, <<SummaryLine, <<>> >> \o preceding \o section \o following)

SectionedDocs ==
    {SectionedDoc(preceding, section, following) :
        preceding \in OtherSectionsBefore, section \in ArgsSections,
        following \in OtherSectionsAfter}

\* callback.__doc__
CallbackDocs ==
    {None} \cup {Some(text) : text \in {RestDoc, NumpyDoc, GoogleDoc, SummaryDoc, SummaryBlockDoc,
                                        ProseDoc, EmptyDoc, NumpySquashedDoc,
                                        NumpySeparatedBlocksDoc, NumpyAdjacentBlocksDoc,
                                        NumpyEmptySectionDoc, NumpyBlankEndedDoc,
                                        GoogleTwoSectionsDoc, GoogleAdjacentSectionsDoc,
                                        NumpyTypedEntryDoc, NumpyOtherOnlyDoc, DashPrefixDoc,
                                        NumpyPlainSectionDoc, NumpyIndentedSectionDoc,
                                        NumpyPlainEndedDoc, NumpyIndentedEndedDoc, GoogleTypedDoc,
                                        GoogleTypedSpacedDoc, GoogleTypedColonDoc,
                                        RestTypeContinuedDoc, RestClosedByReturnsDoc}
                                    \cup ComposedDocs \cup ContinuedDocs \cup SectionedDocs}

\* typed_dict.__doc__
TypedDictDocs ==
    {None} \cup {Some(text) : text \in {GroupNumpyDoc, GroupGoogleDoc, GroupProseDoc,
                                        GroupNoParamsDoc, GroupEmptySectionDoc}}

Parameter(name, kind, origin, is_typeddict) ==
    [name |-> name, kind |-> kind, origin |-> origin, is_typeddict |-> is_typeddict]

\* the parameter `ctx: tanjun.abc.Context`
Ctx ==
    Parameter(<<"c","t","x">>, "POSITIONAL_OR_KEYWORD", "none", FALSE)

\* (ctx)
PlainSignature ==
    <<Ctx>>

\* (ctx, a: Str): a parameter with the name of a documented entry
DocumentedSignature ==
    <<Ctx, Parameter(<<"a">>, "POSITIONAL_OR_KEYWORD", "none", FALSE)>>

\* (ctx, **kwargs: Unpack[TypedDict])
UnpackedSignature ==
    <<Ctx, Parameter(<<"k","w","a","r","g","s">>, "VAR_KEYWORD", "Unpack", TRUE)>>

\* the signatures whose annotation names a class that is not read:
\* (ctx, **kwargs: TypedDict), (ctx, **kwargs: Unpack[NotATypedDict]),
\* (ctx, *args: Unpack[TypedDict]), (ctx, arg: Unpack[TypedDict])
IgnoredSignatures ==
    { <<Ctx, Parameter(<<"k","w","a","r","g","s">>, "VAR_KEYWORD", "none", TRUE)>>,
      <<Ctx, Parameter(<<"k","w","a","r","g","s">>, "VAR_KEYWORD", "Unpack", FALSE)>>,
      <<Ctx, Parameter(<<"a","r","g","s">>, "VAR_POSITIONAL", "Unpack", TRUE)>>,
      <<Ctx, Parameter(<<"a","r","g">>, "POSITIONAL_OR_KEYWORD", "Unpack", TRUE)>> }

\* the signature of a callback with the docstring of the class its
\* annotation names
Callables ==
    {<<PlainSignature, None>>, <<DocumentedSignature, None>>}
        \cup {<<UnpackedSignature, doc>> : doc \in TypedDictDocs}
        \cup {<<parameters, Some(GroupNumpyDoc)>> : parameters \in IgnoredSignatures}

\* the values passed as doc_style
StyleArguments ==
    {NoStyle, "google", "numpy", "reST", "catgirl-ml"}

\* ------------------------------------------------------------------------
\* One call of _parse_descriptions(callback, doc_style=doc_style)
\* ------------------------------------------------------------------------

VARIABLES
    callback_doc,       \* callback.__doc__
    signature,          \* the parameters of inspect.signature(callback)
    typed_dict_doc,     \* __doc__ of the class the ** annotation names
    doc_style,          \* the doc_style argument
    kwargs,             \* the dict the call builds and returns
    pc,                 \* the place the call has reached
    result,             \* the dict returned
    error               \* the exception raised, "none" if none

vars ==
    <<callback_doc, signature, typed_dict_doc, doc_style, kwargs, pc, result, error>>

inputs ==
    <<callback_doc, signature, typed_dict_doc, doc_style>>

VARIABLES
    calls,              \* the calls made by concurrent threads, by thread
    heap,               \* the dicts those calls have allocated, by object id
    tables              \* the module's _PARSERS and _MATCH_STYLE objects

threads ==
    <<calls, heap, tables>>

\* the styles _PARSERS has a parser for, and the styles of _MATCH_STYLE
Tables ==
    [parsers |-> DocStyles, match_style |-> _MATCH_STYLE]

\* no thread is calling
NoCalls ==
    /\ calls = <<>>
    /\ heap = <<>>
    /\ tables = Tables

Init ==
    /\ callback_doc \in CallbackDocs
    /\ \E callable \in Callables :
        /\ signature = callable[1]
        /\ typed_dict_doc = callable[2]
    /\ doc_style \in StyleArguments
    /\ kwargs = EmptyDict
    /\ pc = "called"
    /\ result = EmptyDict
    /\ error = "none"
    /\ NoCalls

\* if doc_style and doc_style not in _PARSERS: raise ValueError
CheckDocStyle ==
    /\ pc = "called"
    /\ IF unsupported(doc_style)
       THEN pc' = "done" /\ error' = UnsupportedStyle
       ELSE pc' = "signature" /\ error' = error
    /\ UNCHANGED <<inputs, kwargs, result>>
    /\ UNCHANGED threads

\* the call goes on with the callback's docstring, or ends with the
\* exception a parser raised
Seed(outcome) ==
    IF outcome.error # "none"
    THEN pc' = "done" /\ error' = outcome.error /\ kwargs' = kwargs
    ELSE pc' = "callback" /\ error' = error /\ kwargs' = outcome.descriptions

\* the for loop over the signature's parameters
ParseTypedDict ==
    /\ pc = "signature"
    /\ Seed(parse_typed_dict(signature, typed_dict_doc, doc_style))
    /\ UNCHANGED <<inputs, result>>
    /\ UNCHANGED threads

\* the call ends: it returns kwargs or raises
Finish(outcome) ==
    IF outcome.error # "none"
    THEN error' = outcome.error /\ kwargs' = kwargs /\ result' = result
    ELSE error' = error /\ kwargs' = outcome.descriptions /\ result' = outcome.descriptions

\* the names of the callback's parameters
ParameterNames ==
    {signature[i].name : i \in 1..Len(signature)}

\* the entries of the map whose name is a parameter of the callback
Known(descriptions) ==
    [name \in (DOMAIN descriptions) \cap ParameterNames |-> descriptions[name]]

\* a variant that returns only the entries named after a parameter
ParseCallbackDoc_known ==
    /\ pc = "callback"
    /\ Finish([error        |-> parse_callback_doc(callback_doc, doc_style, kwargs).error,
               descriptions |-> Known(parse_callback_doc(callback_doc, doc_style,
                                                         kwargs).descriptions)])
    /\ pc' = "done"
    /\ UNCHANGED inputs
    /\ UNCHANGED threads

\* the callback's own docstring, then return kwargs
ParseCallbackDoc ==
    /\ pc = "callback"
    /\ Finish(parse_callback_doc(callback_doc, doc_style, kwargs))
    /\ pc' = "done"
    /\ UNCHANGED inputs
    /\ UNCHANGED threads

Next ==
    \/ CheckDocStyle
    \/ ParseTypedDict
    \/ ParseCallbackDoc

Spec ==
    Init /\ [][Next]_vars

\* ------------------------------------------------------------------------
\* Properties of _parse_descriptions
\* ------------------------------------------------------------------------

\* the call has returned or raised
Done ==
    pc = "done"

\* the callback's ** parameter is annotated Unpack[a typed dict]
NestedGroup ==
    \E i \in 1..Len(signature) :
        /\ signature[i].kind = "VAR_KEYWORD"
        /\ signature[i].origin = "Unpack"
        /\ signature[i].is_typeddict

\* the callback's documentation text, and the number of its lines
CallbackText ==
    getdoc(callback_doc)

CallbackLines ==
    Len(splitlines(CallbackText.text))

\* the callback's documentation is a one-line summary
SummaryOnly ==
    Truthy(CallbackText) /\ CallbackLines = 1

\* the callback's documentation has lines beyond its summary line
HasDetailLines ==
    Truthy(CallbackText) /\ CallbackLines > 1

\* the nested group carries documentation text
GroupDocumented ==
    NestedGroup /\ Truthy(getdoc(typed_dict_doc))

\* the entries seeded from the nested group's documentation
Seeded ==
    parse_typed_dict(signature, typed_dict_doc, doc_style).descriptions

\* a supported style override, or none
SupportedStyleArgument ==
    doc_style \in {NoStyle, "google", "numpy", "reST"}

RestDescriptions ==
    (<<"c","a","t">> :> <<"T","h","e"," ","u","s","e","r",".">>)
        @@ (<<"p","a","n">> :> <<"T","h","e"," ","c","h","a","n","n","e","l",".">>)

\* C1: with no style override and no nested group, the reST docstring
\* RestDoc yields exactly {cat: "The user.", pan: "The channel."}.
C1_RestScenario ==
    (Done /\ callback_doc = Some(RestDoc) /\ doc_style = NoStyle /\ ~NestedGroup)
        => (error = "none" /\ result = RestDescriptions)

NumpyDescriptions ==
    (<<"f","o","o">> :> <<"g","o"," ","h","o","m","e"," ","b","o","s","s">>)
        @@ (<<"b","a","r">> :> <<"m","e","o","w","e","r","s">>)

\* C2: with no style override and no nested group, the Numpy docstring
\* NumpyDoc yields exactly {foo: "go home boss", bar: "meowers"}.
C2_NumpyScenario ==
    (Done /\ callback_doc = Some(NumpyDoc) /\ doc_style = NoStyle /\ ~NestedGroup)
        => (error = "none" /\ result = NumpyDescriptions)

C2_Witness ==
    Done /\ callback_doc = Some(NumpyDoc) /\ doc_style = NoStyle /\ ~NestedGroup
         /\ DOMAIN result = {<<"f","o","o">>, <<"b","a","r">>}

GoogleDescriptions ==
    (<<"a">> :> <<"x">>) @@ (<<"b">> :> <<"y">>)

\* C3: with no style override and no nested group, the Google docstring
\* GoogleDoc yields exactly {a: "x", b: "y"}.
C3_GoogleScenario ==
    (Done /\ callback_doc = Some(GoogleDoc) /\ doc_style = NoStyle /\ ~NestedGroup)
        => (error = "none" /\ result = GoogleDescriptions)

C3_Witness ==
    Done /\ callback_doc = Some(GoogleDoc) /\ doc_style = NoStyle /\ ~NestedGroup
         /\ DOMAIN result = {<<"a">>, <<"b">>}

C5_SummaryOnlyAnyStyle ==
    (Done /\ SupportedStyleArgument /\ SummaryOnly /\ ~NestedGroup)
        => (error = "none" /\ result = EmptyDict)

C5_Witness ==
    Done /\ doc_style = "numpy" /\ callback_doc = Some(SummaryDoc) /\ ~NestedGroup

\* C6: the call fails with UndeterminedStyle exactly when the callback's
\* documentation has detail lines, no style override was given, no pattern
\* of _MATCH_STYLE matches the callback's documentation, and the nested
\* group seeded no entry.
C6_UndeterminedExactly ==
    Done =>
        (error = UndeterminedStyle
            <=> (/\ HasDetailLines
                 /\ doc_style = NoStyle
                 /\ _get_docstyle(CallbackText.text) = NoStyle
                 /\ Seeded = EmptyDict))

\* C7: a style override other than google, numpy and reST fails with
\* UnsupportedStyle before any documentation is read, whatever the
\* callback's and the group's documentation are.
C7_UnsupportedFirst ==
    ~SupportedStyleArgument
        => (/\ pc \in {"called", "done"}
            /\ kwargs = EmptyDict
            /\ Done => error = UnsupportedStyle)

C7_Witness ==
    Done /\ ~SupportedStyleArgument /\ callback_doc = None /\ error = UnsupportedStyle

\* C8: for every supported style override or none, a callback without
\* documentation text whose nested group seeded no entry fails with
\* MissingDocumentation.
C8_UndocumentedIsMissing ==
    (Done /\ SupportedStyleArgument /\ ~Truthy(CallbackText) /\ Seeded = EmptyDict)
        => error = MissingDocumentation

\* C9 as stated: the call fails with MissingDocumentation only when neither
\* the callback nor its nested group carries documentation text.
C9_MissingOnlyWithoutAnyText ==
    (Done /\ error = MissingDocumentation)
        => (~Truthy(CallbackText) /\ ~GroupDocumented)

\* C9 as amended: the call fails with MissingDocumentation only when the
\* callback carries no documentation text and the nested group seeded no
\* entry; a group that carries text but seeds nothing does not prevent it.
C9_MissingOnlyWithoutEntries ==
    (Done /\ error = MissingDocumentation)
        => (~Truthy(CallbackText) /\ Seeded = EmptyDict)

C9_Witness ==
    Done /\ error = MissingDocumentation /\ GroupDocumented /\ Seeded = EmptyDict

\* C10: when the callback's documentation has detail lines of no
\* determinable style and the nested group seeded at least one entry, the
\* call raises nothing and returns exactly the seeded entries.
C10_SeededStands ==
    (/\ Done
     /\ HasDetailLines
     /\ doc_style = NoStyle
     /\ _get_docstyle(CallbackText.text) = NoStyle
     /\ Seeded # EmptyDict)
        => (error = "none" /\ result = Seeded)

C10_Witness ==
    /\ Done
    /\ callback_doc = Some(ProseDoc)
    /\ doc_style = NoStyle
    /\ typed_dict_doc = Some(GroupNumpyDoc)
    /\ result = (<<"v","a","l","u","e">> :> <<"V","a","l","u","e"," ","m","e"," ","u","w","u",".">>)

\* the outcome of the call for the same callback without the nested group
WithoutGroup ==
    parse_callback_doc(callback_doc, doc_style, EmptyDict)

\* no pattern of _MATCH_STYLE matches the nested group's documentation
GroupStyleUndetected ==
    GroupDocumented /\ _get_docstyle(getdoc(typed_dict_doc).text) = NoStyle

\* C11: when no pattern matches the nested group's documentation and no
\* style override is given, the group seeds no entry and the call ends as
\* it does for the same callback without the group: the same exception,
\* or the same returned map.
C11_UndetectedGroupIgnored ==
    (Done /\ doc_style = NoStyle /\ GroupStyleUndetected)
        => (/\ Seeded = EmptyDict
            /\ error = WithoutGroup.error
            /\ error = "none" => result = WithoutGroup.descriptions)

C11_Witness ==
    /\ Done
    /\ doc_style = NoStyle
    /\ typed_dict_doc = Some(GroupProseDoc)
    /\ NestedGroup
    /\ callback_doc = Some(GoogleDoc)
    /\ result = GoogleDescriptions

\* the nested group's documentation text
GroupText ==
    getdoc(typed_dict_doc).text

\* the style each of the two texts is scanned with: the override, or the
\* style detected in that text alone
GroupStyle ==
    IF doc_style # NoStyle THEN doc_style ELSE _get_docstyle(GroupText)

CallbackStyle ==
    IF doc_style # NoStyle THEN doc_style ELSE _get_docstyle(CallbackText.text)

\* both documentation texts are scanned
BothScanned ==
    /\ GroupDocumented /\ GroupStyle \in DocStyles
    /\ HasDetailLines /\ CallbackStyle \in DocStyles

\* the maps the scanners make of the two texts
GroupMap ==
    _PARSERS(GroupStyle, splitlines(GroupText)).descriptions

CallbackMap ==
    _PARSERS(CallbackStyle, Tail(splitlines(CallbackText.text))).descriptions

\* C12: when both the nested group's and the callback's documentation are
\* scanned, each with the override or else with the style detected in its
\* own text, the returned map has the names of both maps, a name of the
\* callback's map with the callback's description, any other name with
\* the group's description.
C12_CallbackOverridesGroup ==
    (Done /\ error = "none" /\ BothScanned)
        => (/\ DOMAIN result = (DOMAIN GroupMap) \cup (DOMAIN CallbackMap)
            /\ \A name \in DOMAIN CallbackMap : result[name] = CallbackMap[name]
            /\ \A name \in (DOMAIN GroupMap) \ (DOMAIN CallbackMap) :
                   result[name] = GroupMap[name])

\* a name described in both texts has the callback's description
C12_Witness ==
    /\ Done /\ error = "none" /\ BothScanned
    /\ doc_style = NoStyle
    /\ typed_dict_doc = Some(GroupGoogleDoc)
    /\ callback_doc = Some(GoogleDoc)
    /\ GroupMap = (<<"a">> :> <<"z">>)
    /\ result = GoogleDescriptions

\* the two texts are scanned with different detected styles
C12_MixedStyles ==
    /\ Done /\ error = "none" /\ BothScanned
    /\ doc_style = NoStyle
    /\ GroupStyle = "numpy" /\ CallbackStyle = "google"
    /\ typed_dict_doc = Some(GroupNumpyDoc)
    /\ callback_doc = Some(GoogleDoc)
    /\ DOMAIN result = {<<"v","a","l","u","e">>, <<"a">>, <<"b">>}

\* C13: the documentation of the class an annotation names seeds entries
\* only for a ** parameter annotated Unpack[a typed dict]; for
\* **kwargs: TypedDict, **kwargs: Unpack[not a typed dict],
\* *args: Unpack[TypedDict] and arg: Unpack[TypedDict] nothing is seeded
\* and the call ends as it does on the callback's documentation alone.
C13_OnlyUnpackedTypedDict ==
    /\ (pc = "callback" /\ kwargs # EmptyDict) => NestedGroup
    /\ (Done /\ SupportedStyleArgument /\ signature \in IgnoredSignatures)
          => (/\ kwargs = IF error = "none" THEN result ELSE EmptyDict
              /\ error = WithoutGroup.error
              /\ error = "none" => result = WithoutGroup.descriptions)

C13_Witness ==
    /\ Done
    /\ signature = <<Ctx, Parameter(<<"k","w","a","r","g","s">>, "VAR_KEYWORD", "none", TRUE)>>
    /\ typed_dict_doc = Some(GroupNumpyDoc)
    /\ doc_style = NoStyle
    /\ callback_doc = Some(GoogleDoc)
    /\ result = GoogleDescriptions

\* the lines of the callback's documentation text
CallbackTextLines ==
    splitlines(CallbackText.text)

\* the text has an "Args:" header line
HasArgsHeader(lines) ==
    \E i \in 1..Len(lines) : strip(lower(lines[i])) = ArgsHeader

\* the text has a Parameters header line directly followed by a dash row
HasNumpyHeader(lines) ==
    \E i \in 1..(Len(lines) - 1) :
        /\ strip(lower(lines[i])) = ParametersHeader
        /\ startswith(lines[i + 1], <<"-">>)
        /\ replace_char(lines[i + 1], "-") = <<>>

\* the text has a `:param x:` field line
HasParamField(lines) ==
    \E i \in 1..Len(lines) :
        /\ _REST_PATTERN(lines[i]).matched
        /\ _REST_PATTERN(lines[i]).groups[1] = ParamCategory

\* C14: a text with both an "Args:" header line and a `:param x:` field
\* line is detected as google, and a text with both a Parameters header
\* pair and a `:param x:` field line, but no "Args:" header, as numpy.
C14_GoogleThenNumpyThenRest ==
    (Done /\ doc_style = NoStyle /\ Truthy(CallbackText) /\ HasParamField(CallbackTextLines))
        => (/\ HasArgsHeader(CallbackTextLines)
                  => _get_docstyle(CallbackText.text) = "google"
            /\ (HasNumpyHeader(CallbackTextLines) /\ ~HasArgsHeader(CallbackTextLines))
                  => _get_docstyle(CallbackText.text) = "numpy")

\* the entry's fragment, if not empty, and the trimmed continuation
\* lines, joined by single spaces
Continued(item, continuation) ==
    join(<<" ">>, (IF item.fragment # <<>> THEN <<item.fragment>> ELSE <<>>)
                      \o [i \in 1..Len(continuation) |-> strip(continuation[i])])

\* C15: for each of the three scanners, the description of an entry with
\* N >= 1 continuation lines, at the end of the text or before another
\* entry, is the entry's non-empty fragment and the trimmed continuation
\* lines in order, joined by single spaces.
C15_ContinuationJoined ==
    \A item \in Entries, continuation \in Continuations, followed \in BOOLEAN :
        (/\ Done
         /\ ~NestedGroup
         /\ doc_style \in {NoStyle, item.style}
         /\ callback_doc = Some(ContinuedDoc(item, continuation, followed)))
            => (/\ error = "none"
                /\ item.name \in DOMAIN result
                /\ result[item.name] = Continued(item, continuation))

C15_Witness ==
    /\ Done /\ ~NestedGroup /\ doc_style = NoStyle /\ error = "none"
    /\ \E item \in Entries :
        /\ item.style = "numpy"
        /\ callback_doc = Some(ContinuedDoc(item, <<<<"\t","z">>, <<" "," ","t"," ","w"," "," ">>>>, TRUE))
        /\ result[item.name] = <<"z"," ","t"," ","w">>

\* C16: a Parameters section directly followed, without a blank line, by
\* the dash-underlined Returns header ends at that header: the map has
\* the entries of the Parameters section and nothing else.
C16_SquashedSectionEnds ==
    (/\ Done
     /\ ~NestedGroup
     /\ doc_style \in {NoStyle, "numpy"}
     /\ callback_doc = Some(NumpySquashedDoc))
        => (error = "none" /\ result = NumpyDescriptions)

\* the names the scanner finds in the callback's documentation
CallbackNames ==
    IF HasDetailLines /\ CallbackStyle \in DocStyles THEN DOMAIN CallbackMap ELSE {}

\* C17: every name scanned from the nested group's or the callback's
\* documentation is a key of the returned map, whether the callback has a
\* parameter of that name or not.
C17_NamesUnfiltered ==
    (Done /\ error = "none")
        => (DOMAIN Seeded) \cup CallbackNames \subseteq DOMAIN result

C17_Witness ==
    /\ Done /\ error = "none"
    /\ signature = DocumentedSignature
    /\ callback_doc = Some(GoogleDoc)
    /\ doc_style = NoStyle
    /\ <<"a">> \in ParameterNames /\ <<"b">> \notin ParameterNames
    /\ DOMAIN result = {<<"a">>, <<"b">>}

\* ------------------------------------------------------------------------
\* Concurrent calls of _parse_descriptions
\* ------------------------------------------------------------------------

\* the threads that call _parse_descriptions
Threads ==
    {1, 2}

\* the variables of the single call, at rest
NoCall ==
    /\ callback_doc = None
    /\ signature = PlainSignature
    /\ typed_dict_doc = None
    /\ doc_style = NoStyle
    /\ kwargs = EmptyDict
    /\ pc = "done"
    /\ result = EmptyDict
    /\ error = "none"

\* the callbacks and doc_style arguments of the concurrent calls
ConcurrentDocs ==
    {None, Some(GoogleDoc), Some(ProseDoc), Some(SummaryDoc)}

ConcurrentCallables ==
    { <<PlainSignature, None>>,
      <<UnpackedSignature, Some(GroupNumpyDoc)>>,
      <<UnpackedSignature, Some(GroupEmptySectionDoc)>> }

ConcurrentStyles ==
    {NoStyle, "numpy", "catgirl-ml"}

\* the frame of a call: its arguments and its locals; kwargs and result
\* hold the id of a dict of the heap, 0 while unset
Call(doc, callable, style) ==
    [callback_doc |-> doc, signature |-> callable[1], typed_dict_doc |-> callable[2],
     doc_style |-> style, kwargs |-> 0, pc |-> "called", result |-> 0, error |-> "none"]

Calls ==
    {Call(doc, callable, style) :
        doc \in ConcurrentDocs, callable \in ConcurrentCallables, style \in ConcurrentStyles}

ConcurrentInit ==
    /\ NoCall
    /\ calls \in [Threads -> Calls]
    /\ heap = <<>>
    /\ tables = Tables

\* a variant in which every call uses one and the same dict
allocate_shared(objects) ==
    [heap |-> IF objects = <<>> THEN <<EmptyDict>> ELSE objects, id |-> 1]

\* `kwargs: dict[str, typing.Any] = {}`: a new dict object
allocate(objects) ==
    [heap |-> Append(objects, EmptyDict), id |-> Len(objects) + 1]

\* the doc_style test of the thread's call, then its new kwargs
Begin(t, call, fresh) ==
    IF unsupported(call.doc_style)
    THEN /\ calls' = [calls EXCEPT ![t].pc = "done", ![t].error = UnsupportedStyle]
         /\ heap' = heap
    ELSE /\ calls' = [calls EXCEPT ![t].pc = "signature", ![t].kwargs = fresh.id]
         /\ heap' = fresh.heap

ThreadCheckDocStyle(t) ==
    /\ calls[t].pc = "called"
    /\ Begin(t, calls[t], allocate(heap))
    /\ UNCHANGED <<tables, vars>>

\* kwargs.update(...) on the thread's own dict, or the parser's exception
ThreadSeed(t, call, outcome) ==
    IF outcome.error # "none"
    THEN /\ calls' = [calls EXCEPT ![t].pc = "done", ![t].error = outcome.error]
         /\ heap' = heap
    ELSE /\ calls' = [calls EXCEPT ![t].pc = "callback"]
         /\ heap' = [heap EXCEPT ![call.kwargs] = update(@, outcome.descriptions)]

ThreadParseTypedDict(t) ==
    /\ calls[t].pc = "signature"
    /\ ThreadSeed(t, calls[t],
                  parse_typed_dict(calls[t].signature, calls[t].typed_dict_doc,
                                   calls[t].doc_style))
    /\ UNCHANGED <<tables, vars>>

\* the thread's call returns its kwargs object or raises
ThreadFinish(t, call, outcome) ==
    IF outcome.error # "none"
    THEN /\ calls' = [calls EXCEPT ![t].pc = "done", ![t].error = outcome.error]
         /\ heap' = heap
    ELSE /\ calls' = [calls EXCEPT ![t].pc = "done", ![t].result = call.kwargs]
         /\ heap' = [heap EXCEPT ![call.kwargs] = outcome.descriptions]

ThreadParseCallbackDoc(t) ==
    /\ calls[t].pc = "callback"
    /\ ThreadFinish(t, calls[t],
                    parse_callback_doc(calls[t].callback_doc, calls[t].doc_style,
                                       heap[calls[t].kwargs]))
    /\ UNCHANGED <<tables, vars>>

ConcurrentNext ==
    \/ \E t \in Threads : ThreadCheckDocStyle(t)
    \/ \E t \in Threads : ThreadParseTypedDict(t)
    \/ \E t \in Threads : ThreadParseCallbackDoc(t)

Concurrent ==
    ConcurrentInit /\ [][ConcurrentNext]_<<vars, threads>>

\* the call after the loop over the signature, run alone
AloneSeeded(call, seeded) ==
    IF seeded.error # "none" THEN seeded
    ELSE parse_callback_doc(call.callback_doc, call.doc_style, seeded.descriptions)

\* what the call returns or raises when it is the only call
Alone(call) ==
    IF unsupported(call.doc_style) THEN Raised(UnsupportedStyle)
    ELSE AloneSeeded(call, parse_typed_dict(call.signature, call.typed_dict_doc,
                                            call.doc_style))

\* the thread's call has returned a dict
HasReturned(t) ==
    calls[t].pc = "done" /\ calls[t].error = "none"

\* the arguments of a call
Arguments(call) ==
    <<call.callback_doc, call.signature, call.typed_dict_doc, call.doc_style>>

\* C18: under every interleaving of two concurrent calls, each call ends
\* with the exception or the map it ends with when run alone, two calls
\* with the same arguments return equal maps, the dicts returned by two
\* calls are different objects, and _PARSERS and _MATCH_STYLE stay as
\* they are.
C18_CallsIndependent ==
    /\ tables = Tables
    /\ \A t \in Threads :
        calls[t].pc = "done"
            => (/\ calls[t].error = Alone(calls[t]).error
                /\ calls[t].error = "none"
                      => heap[calls[t].result] = Alone(calls[t]).descriptions)
    /\ \A t, u \in Threads :
        (t # u /\ HasReturned(t) /\ HasReturned(u))
            => (/\ calls[t].result # calls[u].result
                /\ Arguments(calls[t]) = Arguments(calls[u])
                      => heap[calls[t].result] = heap[calls[u].result])

C18_Witness ==
    /\ HasReturned(1) /\ HasReturned(2)
    /\ Arguments(calls[1]) = Arguments(calls[2])
    /\ calls[1].callback_doc = Some(GoogleDoc)
    /\ calls[1].typed_dict_doc = Some(GroupNumpyDoc)
    /\ calls[1].result = 2 /\ calls[2].result = 1
    /\ heap[1] = heap[2]
    /\ DOMAIN heap[1] = {<<"v","a","l","u","e">>, <<"a">>, <<"b">>}

\* the entries of the two blocks of the docstrings above
BlocksDescriptions ==
    (<<"a">> :> <<"x">>) @@ (<<"b">> :> <<"y">>)

\* C19: the Numpy scanner returns the entries of the Parameters block and
\* of the Other Parameters block of one text, whether the blocks are
\* separated by another named section or follow one another with a single
\* blank line in between.
C19_EveryBlockContributes ==
    (/\ Done
     /\ ~NestedGroup
     /\ doc_style \in {NoStyle, "numpy"}
     /\ callback_doc \in {Some(NumpySeparatedBlocksDoc), Some(NumpyAdjacentBlocksDoc)})
        => (error = "none" /\ result = BlocksDescriptions)

\* the docstrings whose only parameter section is empty, with the style
\* of the section: "Args:" at the end of the text, Parameters and its
\* dash row at the end of the text or before a blank line and a Returns
\* section
EmptySections ==
    { <<"google", Compose(<<ArgsHeader>>)>>,
      <<"numpy", Compose(<<ParametersHeader, <<"-","-","-">> >>)>>,
      <<"numpy", NumpyEmptySectionDoc>> }

\* C20: the scan of a text whose parameter section is empty raises nothing
\* and yields no entry.
C20_EmptySectionIsEmpty ==
    \A section \in EmptySections :
        (/\ Done
         /\ ~NestedGroup
         /\ doc_style = section[1]
         /\ callback_doc = Some(section[2]))
            => (error = "none" /\ result = EmptyDict)

\* C21: a blank line inside an open Numpy section that no named section
\* header follows ends the section: the lines after it add neither keys
\* nor description text to the map.
C21_BlankLineEndsSection ==
    (/\ Done
     /\ ~NestedGroup
     /\ doc_style \in {NoStyle, "numpy"}
     /\ callback_doc = Some(NumpyBlankEndedDoc))
        => (error = "none" /\ result = (<<"a">> :> <<"x">>))

\* C22: every "Args:" section of a Google text contributes its entries:
\* each entry line between a header and the first blank line or the end
\* of the text after it is a key of the result, and an entry of a later
\* section replaces one of the same name of an earlier section.
C22_EveryArgsSectionContributes ==
    (Done /\ ~NestedGroup /\ doc_style \in {NoStyle, "google"})
        => (/\ callback_doc = Some(GoogleTwoSectionsDoc)
                  => (/\ error = "none"
                      /\ result = (<<"a">> :> <<"y">>) @@ (<<"d">> :> <<"w">>)
                                     @@ (<<"b">> :> <<"y">>))
            /\ callback_doc = Some(GoogleAdjacentSectionsDoc)
                  => (/\ error = "none"
                      /\ result = (<<"a">> :> <<"x">>) @@ (<<"b">> :> <<"y">>)))

\* C23 as stated: the Numpy entry line `b : int` opens the entry b with
\* "int" as the first fragment of its description, ahead of the
\* continuation line.
C23_RestSeedsDescription ==
    (/\ Done
     /\ ~NestedGroup
     /\ doc_style \in {NoStyle, "numpy"}
     /\ callback_doc = Some(NumpyTypedEntryDoc))
        => (error = "none" /\ result = (<<"b">> :> <<"i","n","t"," ","y">>))

\* C23 as amended: the Numpy entry line `b : int` opens the entry b and
\* what follows the name is discarded: the description is made of the
\* continuation lines only.
C23_RestDiscarded ==
    (/\ Done
     /\ ~NestedGroup
     /\ doc_style \in {NoStyle, "numpy"}
     /\ callback_doc = Some(NumpyTypedEntryDoc))
        => (error = "none" /\ result = (<<"b">> :> <<"y">>))

C23_Witness ==
    /\ Done
    /\ ~NestedGroup
    /\ doc_style = NoStyle
    /\ callback_doc = Some(NumpyTypedEntryDoc)
    /\ _NUMPY_PATTERN(<<"b"," ",":"," ","i","n","t">>).groups = << <<"b">> >>
    /\ result = (<<"b">> :> <<"y">>)

\* the names the style's entry pattern captures from the lines
CapturedNames(style, lines) ==
    IF style = "google"
    THEN {_GOOGLE_PATTERN(lines[i]).groups[1] :
              i \in {j \in 1..Len(lines) : _GOOGLE_PATTERN(lines[j]).matched}}
    ELSE IF style = "numpy"
    THEN {_NUMPY_PATTERN(lines[i]).groups[1] :
              i \in {j \in 1..Len(lines) : _NUMPY_PATTERN(lines[j]).matched}}
    ELSE {_REST_PATTERN(lines[i]).groups[2] :
              i \in {j \in 1..Len(lines) :
                        /\ _REST_PATTERN(lines[j]).matched
                        /\ _REST_PATTERN(lines[j]).groups[1] = ParamCategory}}

\* C24: every key of the map scanned from the callback's documentation is
\* a name that the style's entry pattern captures from one of its lines;
\* a line the pattern does not match creates no key.
C24_KeysAreCapturedNames ==
    (/\ Done
     /\ error = "none"
     /\ ~NestedGroup
     /\ HasDetailLines
     /\ CallbackStyle \in DocStyles)
        => DOMAIN result \subseteq CapturedNames(CallbackStyle, Tail(CallbackTextLines))

\* the text has a line that normalises to "parameters" or to
\* "other parameters" directly followed by a line of dashes only
HasParametersBlock(lines) ==
    \E i \in 1..(Len(lines) - 1) :
        /\ strip(lower(lines[i])) \in {ParametersHeader, OtherParametersHeader}
        /\ startswith(lines[i + 1], <<"-">>)
        /\ replace_char(lines[i + 1], "-") = <<>>

\* C25: for a text without an "args:" line, detection returns numpy
\* exactly when a Parameters or Other Parameters line is directly
\* followed by a line of dashes only.
C25_NumpyDetectedExactly ==
    (/\ Done
     /\ doc_style = NoStyle
     /\ Truthy(CallbackText)
     /\ ~HasArgsHeader(CallbackTextLines))
        => (_get_docstyle(CallbackText.text) = "numpy"
                <=> HasParametersBlock(CallbackTextLines))

\* line i of the scanned lines is a dash-only line whose preceding line
\* normalises to "parameters" or to "other parameters"
OpensSection(lines, i) ==
    /\ i >= 2
    /\ startswith(lines[i], <<"-">>)
    /\ replace_char(lines[i], "-") = <<>>
    /\ strip(lower(lines[i - 1])) \in {ParametersHeader, OtherParametersHeader}

\* C26: the Numpy scanner opens a section only at a dash-only line that
\* follows a Parameters or Other Parameters line; when the scanned lines
\* have no such line, a dash-only first line included, nothing is
\* collected.
C26_SectionNeedsHeaderBefore ==
    (/\ Done
     /\ ~NestedGroup
     /\ doc_style = "numpy"
     /\ HasDetailLines
     /\ \A i \in 1..Len(Tail(CallbackTextLines)) : ~OpensSection(Tail(CallbackTextLines), i))
        => (error = "none" /\ result = EmptyDict)

\* the pairs of an unindented section and the same section indented
IndentedPairs ==
    { <<NumpyPlainSectionDoc, NumpyIndentedSectionDoc>>,
      <<NumpyPlainEndedDoc, NumpyIndentedEndedDoc>> }

\* C27: a Numpy section whose lines all carry the same extra indentation
\* yields the map of the unindented section, when it runs to the end of
\* the text and when a following header ends it.
C27_IndentedSectionSameMap ==
    \A pair \in IndentedPairs :
        (/\ Done
         /\ ~NestedGroup
         /\ doc_style \in {NoStyle, "numpy"}
         /\ callback_doc = Some(pair[2]))
            => (/\ error = "none"
                /\ result = parse_callback_doc(Some(pair[1]), doc_style, EmptyDict).descriptions
                /\ result = (<<"b">> :> <<"y">>) @@ (<<"c">> :> <<"z">>))

\* the typed entries and, for each, the text after the colon that closes
\* the name and type
TypedEntries ==
    { <<GoogleTypedDoc, <<"x">>>>,
      <<GoogleTypedSpacedDoc, <<"x">>>>,
      <<GoogleTypedColonDoc, <<"s","e","e",":"," ","t","h","i","s">>>> }

\* C28: a Google entry line "name (type): text" or "name (type) : text"
\* gives the key name described by the whole trimmed text after the colon
\* that closes the name and type, a text with a colon of its own included.
C28_TypedEntryKeepsText ==
    \A item \in TypedEntries :
        (/\ Done
         /\ ~NestedGroup
         /\ doc_style \in {NoStyle, "google"}
         /\ callback_doc = Some(item[1]))
            => (error = "none" /\ result = (<<"a">> :> item[2]))

\* the ReST docstrings above and, for each, the map of its param fields
\* with the lines that continue them
ParamFields ==
    { <<RestTypeContinuedDoc,
        (<<"c">> :> <<"y">>) @@ (<<"d">> :> <<"w"," ","t","a","i","l">>)>>,
      <<RestClosedByReturnsDoc,
        (<<"c">> :> <<"y"," ","m","o","r","e">>)>> }

\* C29: in the ReST scanner every field closes the open entry and only a
\* param field opens one: the map holds the param fields alone, each with
\* its own continuation lines, and the lines after a field of another
\* category add nothing to it.
C29_OnlyParamOpensEntry ==
    \A item \in ParamFields :
        (/\ Done
         /\ ~NestedGroup
         /\ doc_style \in {NoStyle, "reST"}
         /\ callback_doc = Some(item[1]))
            => (error = "none" /\ result = item[2])

\* the map of the Args section when no other section is around it
ArgsAlone(section) ==
    parse_callback_doc(Some(SectionedDoc(<<>>, section, <<>>)), doc_style, EmptyDict).descriptions

\* C30: the Google section ends at the first blank line after its header
\* or at the end of the text: the lines of other sections before the
\* header or after that blank line give no key, and the entries of the
\* Args section are described as they are without those sections.
C30_OtherSectionsIgnored ==
    \A preceding \in OtherSectionsBefore, section \in ArgsSections,
       following \in OtherSectionsAfter :
        (/\ Done
         /\ ~NestedGroup
         /\ doc_style \in {NoStyle, "google"}
         /\ callback_doc = Some(SectionedDoc(preceding, section, following)))
            => (/\ error = "none"
                /\ DOMAIN result = {<<"a">>, <<"b">>}
                /\ result = ArgsAlone(section))

\* a call that ended on the Args section with continued entries, a Raises
\* section before it and Raises and Returns sections after it
C30_Witness ==
    /\ Done
    /\ ~NestedGroup
    /\ doc_style = NoStyle
    /\ \E section \in ArgsSections, preceding \in OtherSectionsBefore,
          following \in OtherSectionsAfter :
        /\ Len(preceding) = 2
        /\ Len(following) = 6
        /\ callback_doc = Some(SectionedDoc(preceding, section, following))
    /\ error = "none"
    /\ result = (<<"a">> :> <<"x"," ","m","o","r","e">>) @@ (<<"b">> :> <<"y">>)

====
